---- MODULE Spec2Model ----
(***************************************************************************)
(* Order tracking (src/app.py): the catalog lookup, the JSON order store   *)
(* and the order lifecycle (create, llego, avisado, entregado, firma) as   *)
(* served by the HTTP handlers, one request at a time.                     *)
(*                                                                         *)
(* Python strings that the code trims or case-folds are sequences of       *)
(* one-character strings; None is the empty sequence and a present value v *)
(* of a nullable field is <<v>>.                                           *)
(***************************************************************************)
EXTENDS Integers, Sequences, FiniteSets, TLC

VARIABLES
    file,     \* ORDERS_FILE: [exists, orders]
    clock,    \* wall clock, in ticks, at the most recent request
    issued,   \* number of uuid4() identifiers handed out so far
    last,     \* the most recent request and its response
    callers   \* the requests being served side by side, one per thread

vars == <<file, clock, issued, last, callers>>

(* ------------------------------ bounds --------------------------------- *)

\* orders that may be created in a run (identifiers 1..MaxOrders)
MaxOrders == 1
\* the wall clock runs over 0..MaxClock ticks
MaxClock == 2
\* clock ticks per second: strftime("%S") drops the sub-second part
TicksPerSecond == 2

None == <<>>
Some(v) == <<v>>

\* identifiers a request may name: 0 is an identifier issued by an earlier
\* run, 1..MaxOrders are the ones uuid4() hands out in this one
OrderIds == 0..MaxOrders

\* stands for "no identifier" (None where an identifier is expected)
NoId == 0 - 1

(* ----------------------------- strings --------------------------------- *)

Whitespace == {" ", "\t", "\n"}

LowerCase == <<"a","b","c","d","e","f","g","h","i","j","k","l","m",
               "n","o","p","q","r","s","t","u","v","w","x","y","z">>
UpperCase == <<"A","B","C","D","E","F","G","H","I","J","K","L","M",
               "N","O","P","Q","R","S","T","U","V","W","X","Y","Z">>

\* str.upper() on one character
UpperChar(c) ==
    IF \E i \in 1..Len(LowerCase) : LowerCase[i] = c
    THEN UpperCase[CHOOSE i \in 1..Len(LowerCase) : LowerCase[i] = c]
    ELSE c

\* str.upper()
Upper(s) == [i \in 1..Len(s) |-> UpperChar(s[i])]

RECURSIVE LStrip(_)
LStrip(s) ==
    IF s # <<>> /\ Head(s) \in Whitespace THEN LStrip(Tail(s)) ELSE s

RECURSIVE RStrip(_)
RStrip(s) ==
    IF s # <<>> /\ s[Len(s)] \in Whitespace
    THEN RStrip(SubSeq(s, 1, Len(s) - 1))
    ELSE s

\* str.strip()
Strip(s) == RStrip(LStrip(s))

\* dict.get(key, default)
Get(d, key, default) == IF key \in DOMAIN d THEN d[key] ELSE default

\* dict.setdefault(key, default), as the resulting dict
SetDefault(d, key, default) ==
    IF key \in DOMAIN d THEN d ELSE d @@ (key :> default)

(* ------------------------- catalog and policy -------------------------- *)

DefaultArrival == "Encargar a Montevideo"

BRAND_ARRIVAL ==
    { <<<<"S","U","P","R","A">>, "Llega por orden de compra">>,
      <<<<"B","E","L","S","I","R">>, "Llega por orden de compra (día 2)">>,
      <<<<"U","S","A"," ","P","E","T">>, "Llega por orden de compra (día 3)">>,
      <<<<"D","I","S","T","R","I","C","O">>, "Llega por orden de compra (día 3)">>,
      <<<<"D","A","S","L","I","C","A","R">>, "Llega por orden de compra (día 5)">>,
      <<<<"F","A","R","M","I","N","A">>, "Llega por orden de compra (día 6)">>,
      <<<<"S","A","D","E","N","I","R">>, "Llega por orden de compra (día 4)">> }

\* arrival_info(brand)
arrival_info(brand) ==
    LET key == Upper(Strip(brand))
    IN  IF \E e \in BRAND_ARRIVAL : e[1] = key
        THEN (CHOOSE e \in BRAND_ARRIVAL : e[1] = key)[2]
        ELSE DefaultArrival

\* PADRON as load_padron() leaves it: every field trimmed; codes may repeat
PADRON ==
    << [codigo |-> <<"A","1">>, codigo_barra |-> <<"7","7">>,
        nombre |-> <<"K","i","b">>, fabricante |-> <<>>,
        marca |-> <<"F","a","r","m","i","n","a">>, tipo |-> <<>>],
       [codigo |-> <<"B","2">>, codigo_barra |-> <<>>,
        nombre |-> <<"C","a","t">>, fabricante |-> <<>>,
        marca |-> <<>>, tipo |-> <<>>],
       [codigo |-> <<"A","1">>, codigo_barra |-> <<"7","8">>,
        nombre |-> <<"D","u","p">>, fabricante |-> <<>>,
        marca |-> <<"S","U","P","R","A">>, tipo |-> <<>>] >>

\* variant: an unknown code falls back to the first catalog record
LookupByCode_Fallback(product_code) ==
    IF \E i \in 1..Len(PADRON) : PADRON[i].codigo = product_code
    THEN CHOOSE i \in 1..Len(PADRON) :
            /\ PADRON[i].codigo = product_code
            /\ \A j \in 1..(i - 1) : PADRON[j].codigo # product_code
    ELSE 1

\* next((p for p in PADRON if p.get("codigo") == product_code), None):
\* the index of the first match, 0 for None
LookupByCode(product_code) ==
    IF \E i \in 1..Len(PADRON) : PADRON[i].codigo = product_code
    THEN CHOOSE i \in 1..Len(PADRON) :
            /\ PADRON[i].codigo = product_code
            /\ \A j \in 1..(i - 1) : PADRON[j].codigo # product_code
    ELSE 0

(* ------------------------------ store ---------------------------------- *)

\* variant: the fields are assigned, not defaulted
Normalize_Overwrite(o) ==
    [k \in DOMAIN o \cup {"estado", "fecha_llegada", "fecha_aviso",
                          "fecha_entrega", "firma"} |->
        IF k = "estado" THEN "pendiente"
        ELSE IF k \in {"fecha_llegada", "fecha_aviso", "fecha_entrega", "firma"}
        THEN None
        ELSE o[k]]

\* variant: the setdefault of "firma" is missing
Normalize_NoFirma(o) ==
    SetDefault(SetDefault(SetDefault(SetDefault(o,
        "estado", "pendiente"),
        "fecha_llegada", None),
        "fecha_aviso", None),
        "fecha_entrega", None)

\* the five setdefault calls of load_orders
Normalize(o) ==
    SetDefault(SetDefault(SetDefault(SetDefault(SetDefault(o,
        "estado", "pendiente"),
        "fecha_llegada", None),
        "fecha_aviso", None),
        "fecha_entrega", None),
        "firma", None)

load_orders(f) ==
    IF f.exists
    THEN [i \in 1..Len(f.orders) |-> Normalize(f.orders[i])]
    ELSE <<>>

save_orders(orders) == [exists |-> TRUE, orders |-> orders]

\* datetime.now().strftime("%Y-%m-%d %H:%M:%S"): whole seconds
Strftime(t) == t \div TicksPerSecond

\* the "for o in orders: if o.get("id") == order_id" scan: index of the
\* first match, 0 when target stays None
FindTarget(orders, order_id) ==
    IF \E i \in 1..Len(orders) : Get(orders[i], "id", NoId) = order_id
    THEN CHOOSE i \in 1..Len(orders) :
            /\ Get(orders[i], "id", NoId) = order_id
            /\ \A j \in 1..(i - 1) : Get(orders[j], "id", NoId) # order_id
    ELSE 0

\* bool(x) of a nullable string
Truthy(x) == x # None /\ x # Some(<<>>)

(* ------------------------------ errors --------------------------------- *)

ProductNotFound == "Producto no encontrado en padrón"
OrderNotFound == "Pedido no encontrado"
NotPending == "Secuencia inválida: ya no está pendiente"
NotArrived == "Primero marca como 'Llegó'"
NotNotified == "Primero marca como 'Avisado'"
SignatureRequired == "Captura la firma antes de entregar"
InvalidAction == "Acción no válida"
FirmaRequerida == "Firma requerida"

InvalidTransition == {NotPending, NotArrived, NotNotified}

\* variant: the loaded list is written back before the error is raised
Raise_Saves(msg, f) ==
    [error |-> Some(msg), id |-> NoId,
     file |-> [exists |-> TRUE,
               orders |-> IF f.exists THEN f.orders ELSE <<>>]]

\* a call that raised ValueError(msg): nothing was saved
Raise(msg, f) == [error |-> Some(msg), file |-> f, id |-> NoId]
\* a call that returned after save_orders(orders)
Return(orders, id) == [error |-> None, file |-> save_orders(orders), id |-> id]

(* --------------------------- lifecycle engine -------------------------- *)

\* the four stored values of "estado", in lifecycle order
Estados == <<"pendiente", "llegado", "avisado", "entregado">>

\* variant: the new order replaces the list
Insert0_Replace(order, orders) == <<order>>

\* variant: orders.append(order)
Insert0_Append(order, orders) == orders \o <<order>>

\* orders.insert(0, order)
Insert0(order, orders) == <<order>> \o orders

\* variant: the estado test of "llego" dropped
ArriveAllowed_Always(current) == TRUE

\* variant: "llego" accepted again on an order that already arrived
ArriveAllowed_Again(current) == current \in {"pendiente", "llegado"}

\* "llego" is refused unless current == "pendiente"
\* variant: "llego" is refused only once the order is delivered
ArriveAllowed_NotDelivered(current) == current # "entregado"

ArriveAllowed(current) == current = "pendiente"

\* variant: "avisado" accepted on a delivered order too
NotifyAllowed_AfterDelivery(current) ==
    current \in {"llegado", "avisado", "entregado"}

\* variant: "avisado" accepted on a pending order
NotifyAllowed_FromPending(current) ==
    current \in {"pendiente", "llegado", "avisado"}

\* variant: "avisado" accepted once only
NotifyAllowed_Once(current) == current = "llegado"

\* "avisado" is refused unless current in ("llegado", "avisado")
NotifyAllowed(current) == current \in {"llegado", "avisado"}

\* variant: "entregado" accepted from "llegado" on
DeliverAllowed_FromArrived(current) ==
    current \in {"llegado", "avisado", "entregado"}

\* variant: "entregado" accepted on a notified order only
DeliverAllowed_OnlyNotified(current) == current = "avisado"

\* "entregado" is refused unless current in ("avisado", "entregado")
DeliverAllowed(current) == current \in {"avisado", "entregado"}

\* variant: the signature test dropped
HasFirma_Always(target) == TRUE

\* variant: the test asks for the key, not for a value
HasFirma_KeyPresent(target) == "firma" \in DOMAIN target

\* "entregado" is refused when not target.get("firma")
HasFirma(target) == Truthy(Get(target, "firma", None))

\* POST .../firma is refused when not firma
FirmaGiven(firma) == Truthy(firma)

create_order(f, payload, t, uuid) ==
    LET product_code == Strip(Get(payload, "codigo", <<>>))
        sucursal == Strip(Get(payload, "sucursal", <<>>))
        cantidad == Get(payload, "cantidad", 1)
        obs == Strip(Get(payload, "observaciones", <<>>))
        p == LookupByCode(product_code)
    IN  IF p = 0
        THEN Raise(ProductNotFound, f)
        ELSE LET product == PADRON[p]
                 order ==
                    [id |-> uuid,
                     fecha_solicitud |-> Strftime(t),
                     sucursal |-> IF sucursal # <<>> THEN sucursal
                                  ELSE <<"N","/","D">>,
                     producto |-> [codigo |-> product.codigo,
                                   nombre |-> product.nombre,
                                   marca |-> product.marca,
                                   via |-> arrival_info(product.marca)],
                     cantidad |-> cantidad,
                     estado |-> "pendiente",
                     fecha_llegada |-> None,
                     fecha_aviso |-> None,
                     fecha_entrega |-> None,
                     firma |-> None,
                     observaciones |-> obs]
             IN  Return(Insert0(order, load_orders(f)), uuid)

update_order_status(f, order_id, action, t) ==
    LET now == Strftime(t)
        orders == load_orders(f)
        i == FindTarget(orders, order_id)
    IN  IF i = 0
        THEN Raise(OrderNotFound, f)
        ELSE
          LET target == orders[i]
              current == Get(target, "estado", "pendiente")
              Saved(t2) == Return([orders EXCEPT ![i] = t2], order_id)
          IN  CASE action = "llego" ->
                    IF ~ArriveAllowed(current)
                    THEN Raise(NotPending, f)
                    ELSE Saved([target EXCEPT !.estado = "llegado",
                                              !.fecha_llegada = Some(now)])
                [] action = "avisado" ->
                    IF ~NotifyAllowed(current)
                    THEN Raise(NotArrived, f)
                    ELSE Saved([target EXCEPT !.estado = "avisado",
                                              !.fecha_aviso = Some(now)])
                [] action = "entregado" ->
                    IF ~DeliverAllowed(current)
                    THEN Raise(NotNotified, f)
                    ELSE IF ~HasFirma(target)
                    THEN Raise(SignatureRequired, f)
                    ELSE Saved([target EXCEPT !.estado = "entregado",
                                              !.fecha_entrega = Some(now)])
                [] OTHER -> Raise(InvalidAction, f)

\* variant: the blob is stored under the wrong key
save_signature_WrongKey(f, order_id, data_url) ==
    LET orders == load_orders(f)
        i == FindTarget(orders, order_id)
    IN  IF i = 0
        THEN Raise(OrderNotFound, f)
        ELSE Return([orders EXCEPT ![i] =
                        [@ EXCEPT !.observaciones = data_url[1]]],
                    order_id)

\* variant: a signature already stored is kept
save_signature_KeepFirst(f, order_id, data_url) ==
    LET orders == load_orders(f)
        i == FindTarget(orders, order_id)
    IN  IF i = 0
        THEN Raise(OrderNotFound, f)
        ELSE Return([orders EXCEPT ![i] =
                        IF @.firma = None THEN [@ EXCEPT !.firma = data_url]
                        ELSE @],
                    order_id)

save_signature(f, order_id, data_url) ==
    LET orders == load_orders(f)
        i == FindTarget(orders, order_id)
    IN  IF i = 0
        THEN Raise(OrderNotFound, f)
        ELSE Return([orders EXCEPT ![i] = [@ EXCEPT !.firma = data_url]],
                    order_id)

(* ------------------------------ requests ------------------------------- *)

\* request bodies of POST /api/orders
Payloads ==
    { [codigo |-> <<"A","1">>],
      [codigo |-> <<" ","B","2"," ">>, sucursal |-> <<" ","P","D","E">>,
       cantidad |-> 2, observaciones |-> <<"x"," ">>],
      [codigo |-> <<"Z","9">>, sucursal |-> <<"P","D","E">>],
      [codigo |-> <<"a","1">>],
      [sucursal |-> <<"P","D","E">>] }

\* "accion" values of POST /api/orders/<id>/estado
Actions == {"llego", "avisado", "entregado", "cancelar"}

\* "firma" values of POST /api/orders/<id>/firma: absent, empty, two images
Firmas == {None, Some(<<>>), Some(<<"s","A">>), Some(<<"s","B">>)}

Request(op, id, arg) == [op |-> op, id |-> id, arg |-> arg]

\* the wall clock never runs backward
Times == clock..MaxClock

\* number of threads serving requests side by side
NumCallers == 2

Callers == 1..NumCallers

\* a thread that has served nothing yet
IdleCaller ==
    [pc |-> "idle", req |-> Request("start", NoId, None),
     seen |-> [exists |-> FALSE, orders |-> <<>>],
     pending |-> [exists |-> FALSE, orders |-> <<>>],
     overlapped |-> FALSE, status |-> 0, error |-> None, body |-> <<>>]

Respond(req, r) ==
    /\ callers' = callers
    /\ file' = r.file
    /\ last' = [op |-> req.op, id |-> IF req.op = "create" THEN r.id ELSE req.id,
                arg |-> req.arg,
                status |-> IF r.error = None THEN 200 ELSE 400,
                error |-> r.error]

\* POST /api/orders
api_create_order ==
    \E payload \in Payloads, t \in Times :
        LET r == create_order(file, payload, t, issued + 1)
        IN  /\ r.error = None => issued < MaxOrders
            /\ clock' = t
            /\ issued' = IF r.error = None THEN issued + 1 ELSE issued
            /\ Respond(Request("create", NoId, Get(payload, "codigo", <<>>)), r)

\* POST /api/orders/<order_id>/estado
api_update_order ==
    \E order_id \in OrderIds, action \in Actions, t \in Times :
        /\ clock' = t
        /\ issued' = issued
        /\ Respond(Request(action, order_id, None),
                   update_order_status(file, order_id, action, t))

\* POST /api/orders/<order_id>/firma
api_save_signature ==
    \E order_id \in OrderIds, firma \in Firmas, t \in Times :
        /\ clock' = t
        /\ issued' = issued
        /\ Respond(Request("firma", order_id, firma),
                   IF ~FirmaGiven(firma)
                   THEN Raise(FirmaRequerida, file)
                   ELSE save_signature(file, order_id, firma))

Init ==
    /\ file = [exists |-> FALSE, orders |-> <<>>]
    /\ clock = 0
    /\ issued = 0
    /\ last = [op |-> "start", id |-> NoId, arg |-> None, status |-> 200,
               error |-> None]
    /\ callers = [p \in Callers |-> IdleCaller]

Next ==
    \/ api_create_order
    \/ api_update_order
    \/ api_save_signature

Spec == Init /\ [][Next]_vars

(* ---------------- a store left behind by earlier runs ------------------ *)

\* an order record as an earlier version wrote it, before "estado", the
\* three dates and "firma" existed
LegacyOrder ==
    [id |-> 0, fecha_solicitud |-> 0, sucursal |-> <<"N","/","D">>,
     producto |-> [codigo |-> PADRON[1].codigo, nombre |-> PADRON[1].nombre,
                   marca |-> PADRON[1].marca,
                   via |-> arrival_info(PADRON[1].marca)],
     cantidad |-> 1, observaciones |-> <<>>]

\* the records orders.json may hold at start-up: legacy records with or
\* without "estado" (load_orders backfills the rest), and current records
StoredOrders ==
    {LegacyOrder}
    \cup {LegacyOrder @@ ("estado" :> Estados[k]) : k \in 1..4}
    \cup {LegacyOrder @@
            [estado |-> Estados[k],
             fecha_llegada |-> IF k >= 2 THEN Some(0) ELSE None,
             fecha_aviso |-> IF k >= 3 THEN Some(0) ELSE None,
             fecha_entrega |-> IF k >= 4 THEN Some(0) ELSE None,
             firma |-> x] : k \in 1..4, x \in {None, Some(<<"s","A">>)}}

InitStored ==
    /\ \/ file = [exists |-> FALSE, orders |-> <<>>]
       \/ \E o \in StoredOrders : file = [exists |-> TRUE, orders |-> <<o>>]
    /\ issued = 0
    /\ clock = 0
    /\ last = [op |-> "start", id |-> NoId, arg |-> None, status |-> 200,
               error |-> None]
    /\ callers = [p \in Callers |-> IdleCaller]

SpecStored == InitStored /\ [][Next]_vars

(* ------------------------------ views ---------------------------------- *)

\* what GET /api/orders answers
Orders == load_orders(file)

Has(f, id) == FindTarget(load_orders(f), id) # 0
Ord(f, id) == load_orders(f)[FindTarget(load_orders(f), id)]

\* the stored records, as they are on disk
OnDisk(f) == IF f.exists THEN f.orders ELSE <<>>

\* position of an "estado" value in the lifecycle
Rank(e) == CHOOSE k \in 1..4 : Estados[k] = e

\* the step just taken served the request op on order id
Served(op, id) == last'.op = op /\ last'.id = id

(* ---------------------------- properties -------------------------------- *)

\* C1: with one request served at a time, every step leaves the estado of
\* every stored order as it was or moves it to the next value of
\* pendiente -> llegado -> avisado -> entregado; never back, never two ahead.
C1_ForwardOnly ==
    [][file' # file =>
          \A i \in 1..Len(OnDisk(file)), j \in 1..Len(OnDisk(file')) :
              OnDisk(file')[j].id = OnDisk(file)[i].id =>
                  LET old == Get(OnDisk(file)[i], "estado", "pendiente")
                      new == Get(OnDisk(file')[j], "estado", "pendiente")
                  IN  new = old \/ Rank(new) = Rank(old) + 1]_vars

\* C1 witness: an order has been taken through the whole lifecycle
C1_Witness ==
    \E id \in OrderIds :
        /\ Has(file, id)
        /\ Ord(file, id).estado = "entregado"
        /\ last.op = "entregado" /\ last.id = id /\ last.status = 200

\* C2: starting from an empty store, every stored order whose estado is
\* entregado has a signature (firma is not None).
C2_DeliveredHasFirma ==
    \A i \in 1..Len(Orders) :
        Orders[i].estado = "entregado" => Orders[i].firma # None

\* C2 witness: a delivered order is stored
C2_Witness ==
    \E i \in 1..Len(Orders) :
        /\ Orders[i].estado = "entregado"
        /\ Orders[i].firma = Some(<<"s","B">>)
        /\ last.op = "entregado" /\ last.id = Orders[i].id

\* C3: "entregado" on an order whose firma is None is answered with an error
\* whatever the estado of the order, and estado and fecha_entrega of the
\* order stay as they were.
C3_NoFirmaNoDelivery ==
    [][\A id \in OrderIds :
          (Served("entregado", id) /\ Has(file, id) /\ Ord(file, id).firma = None) =>
              /\ last'.status = 400
              /\ Has(file', id)
              /\ Ord(file', id).estado = Ord(file, id).estado
              /\ Ord(file', id).fecha_entrega = Ord(file, id).fecha_entrega]_vars

\* C3 witness: "entregado" was refused on an order stored as delivered
\* without a signature
C3_Witness ==
    \E id \in OrderIds :
        /\ last.op = "entregado" /\ last.id = id
        /\ last.error = Some(SignatureRequired)
        /\ Has(file, id)
        /\ Ord(file, id).estado = "entregado"
        /\ Ord(file, id).firma = None

\* the response to "entregado" on order id is a success that leaves the
\* order delivered and stamped with the time of the request
Delivered(id) ==
    /\ last'.status = 200
    /\ Has(file', id)
    /\ Ord(file', id).estado = "entregado"
    /\ Ord(file', id).fecha_entrega = Some(Strftime(clock'))

\* the response on order id is the error msg and estado and fecha_entrega
\* of the order are as before
RefusedDelivery(id, msgs) ==
    /\ last'.status = 400
    /\ \E m \in msgs : last'.error = Some(m)
    /\ Has(file', id)
    /\ Ord(file', id).estado = Ord(file, id).estado
    /\ Ord(file', id).fecha_entrega = Ord(file, id).fecha_entrega

\* C4 as stated: "entregado" needs estado avisado; on an avisado order it
\* succeeds exactly when a signature is stored and is refused with
\* SignatureRequired otherwise; on an order in any other estado (entregado
\* included) it does not succeed and changes neither estado nor
\* fecha_entrega.
C4_Original ==
    [][\A id \in OrderIds :
          (Served("entregado", id) /\ Has(file, id)) =>
              IF Ord(file, id).estado = "avisado"
              THEN IF Ord(file, id).firma # None
                   THEN Delivered(id)
                   ELSE RefusedDelivery(id, {SignatureRequired})
              ELSE /\ last'.status = 400
                   /\ Has(file', id)
                   /\ Ord(file', id).estado = Ord(file, id).estado
                   /\ Ord(file', id).fecha_entrega = Ord(file, id).fecha_entrega]_vars

\* C4 amended: "entregado" needs estado avisado or entregado; on such an
\* order it succeeds exactly when a signature is stored (estado becomes or
\* stays entregado, fecha_entrega is stamped again) and is refused with
\* SignatureRequired otherwise; on a pendiente or llegado order it is refused
\* as an invalid transition and changes neither estado nor fecha_entrega.
C4_Amended ==
    [][\A id \in OrderIds :
          (Served("entregado", id) /\ Has(file, id)) =>
              IF Ord(file, id).estado \in {"avisado", "entregado"}
              THEN IF Ord(file, id).firma # None
                   THEN Delivered(id)
                   ELSE RefusedDelivery(id, {SignatureRequired})
              ELSE RefusedDelivery(id, InvalidTransition)]_vars

\* C4 witness: an order notified in second 0 and signed stands delivered in
\* second 1 by the request just served
C4_Witness ==
    \E id \in OrderIds :
        /\ last.op = "entregado" /\ last.id = id /\ last.status = 200
        /\ Has(file, id)
        /\ Ord(file, id).fecha_entrega = Some(Strftime(clock))
        /\ Ord(file, id).fecha_aviso # Ord(file, id).fecha_entrega
        /\ Ord(file, id).fecha_aviso = Some(0)
        /\ Ord(file, id).firma = Some(<<"s","A">>)

\* C5: POST /api/orders with a code that, once trimmed as create_order
\* trims it, equals the codigo of no catalog record is answered with
\* ProductNotFound and the orders file is left exactly as it was.
C5_UnknownProduct ==
    [][(last'.op = "create"
        /\ \A i \in 1..Len(PADRON) : PADRON[i].codigo # Strip(last'.arg)) =>
            /\ last'.error = Some(ProductNotFound)
            /\ file' = file]_vars

\* C5 witness: an unknown code was refused while orders were stored
C5_Witness ==
    /\ last.op = "create"
    /\ last.error = Some(ProductNotFound)
    /\ last.arg = <<"Z","9">>
    /\ Len(OnDisk(file)) = 1

\* C6: a successful create puts at the front of the stored collection a new
\* order with estado pendiente, the three dates and firma None and a product
\* snapshot (codigo, nombre, marca, via) of the first catalog record with
\* that code; the records stored before follow it, unchanged (as load_orders
\* reads them) and in the same order, so the collection is newest first.
C6_CreatePrepends ==
    [][(last'.op = "create" /\ last'.status = 200) =>
          LET new == Head(OnDisk(file'))
              code == Strip(last'.arg)
              p == CHOOSE i \in 1..Len(PADRON) :
                      /\ PADRON[i].codigo = code
                      /\ \A j \in 1..(i - 1) : PADRON[j].codigo # code
          IN  /\ OnDisk(file') # <<>>
              /\ new.id = last'.id
              /\ new.estado = "pendiente"
              /\ new.fecha_llegada = None
              /\ new.fecha_aviso = None
              /\ new.fecha_entrega = None
              /\ new.firma = None
              /\ new.producto = [codigo |-> PADRON[p].codigo,
                                 nombre |-> PADRON[p].nombre,
                                 marca |-> PADRON[p].marca,
                                 via |-> arrival_info(PADRON[p].marca)]
              /\ Tail(OnDisk(file')) = load_orders(file)
              /\ \A i, j \in 1..Len(OnDisk(file')) :
                    i < j => OnDisk(file')[i].id > OnDisk(file')[j].id]_vars

\* C6 witness: an order was created in front of a stored one already under way,
\* its snapshot taken from a catalog record with a listed brand
C6_Witness ==
    /\ last.op = "create" /\ last.status = 200
    /\ Len(OnDisk(file)) = 2
    /\ OnDisk(file)[1].id = last.id
    /\ OnDisk(file)[1].producto.via = "Llega por orden de compra (día 6)"
    /\ OnDisk(file)[2].estado = "avisado"

\* C7: "llego" succeeds only on a pendiente order, which becomes llegado
\* with fecha_llegada the time of the request; on a llegado, avisado or
\* entregado order it is refused as an invalid transition.
C7_MarkArrived ==
    [][\A id \in OrderIds :
          (Served("llego", id) /\ Has(file, id)) =>
              IF Ord(file, id).estado = "pendiente"
              THEN /\ last'.status = 200
                   /\ Has(file', id)
                   /\ Ord(file', id).estado = "llegado"
                   /\ Ord(file', id).fecha_llegada = Some(Strftime(clock'))
              ELSE /\ last'.status = 400
                   /\ \E m \in InvalidTransition : last'.error = Some(m)]_vars

\* C7 witness: an order created in second 0 was marked arrived in second 1
C7_Witness ==
    \E id \in OrderIds :
        /\ last.op = "llego" /\ last.id = id /\ last.status = 200
        /\ Has(file, id)
        /\ Ord(file, id).estado = "llegado"
        /\ Ord(file, id).fecha_solicitud = 0
        /\ Ord(file, id).fecha_llegada = Some(1)

\* C8: "avisado" succeeds on a llegado or avisado order, which is then
\* avisado with fecha_aviso the time of the request (stamped again when it
\* was avisado already); on a pendiente or entregado order it is refused as
\* an invalid transition.
C8_MarkNotified ==
    [][\A id \in OrderIds :
          (Served("avisado", id) /\ Has(file, id)) =>
              IF Ord(file, id).estado \in {"llegado", "avisado"}
              THEN /\ last'.status = 200
                   /\ Has(file', id)
                   /\ Ord(file', id).estado = "avisado"
                   /\ Ord(file', id).fecha_aviso = Some(Strftime(clock'))
              ELSE /\ last'.status = 400
                   /\ \E m \in InvalidTransition : last'.error = Some(m)]_vars

\* C8 witness: an order that arrived in second 0 stands notified in second 1
\* by the request just served
C8_Witness ==
    \E id \in OrderIds :
        /\ last.op = "avisado" /\ last.id = id /\ last.status = 200
        /\ Has(file, id)
        /\ Ord(file, id).estado = "avisado"
        /\ Ord(file, id).fecha_llegada = Some(0)
        /\ Ord(file, id).fecha_aviso = Some(1)

\* C9: a signature request with a non-empty blob on an order that is not
\* entregado succeeds and stores the blob as firma of that order; every other
\* field of the order, and every other stored order, is as before (as
\* load_orders reads them).
C9_SetSignatureFrame ==
    [][\A id \in OrderIds :
          (Served("firma", id) /\ FirmaGiven(last'.arg) /\ Has(file, id)
           /\ Ord(file, id).estado # "entregado") =>
              LET i == FindTarget(load_orders(file), id)
              IN  /\ last'.status = 200
                  /\ Len(OnDisk(file')) = Len(OnDisk(file))
                  /\ OnDisk(file')[i] = [load_orders(file)[i] EXCEPT !.firma = last'.arg]
                  /\ \A j \in 1..Len(OnDisk(file)) :
                        j # i => OnDisk(file')[j] = load_orders(file)[j]]_vars

\* C9 witness: a notified order, second of two stored, carries the blob of
\* the signature request just served
C9_Witness ==
    /\ last.op = "firma" /\ last.status = 200
    /\ last.arg = Some(<<"s","B">>)
    /\ Len(OnDisk(file)) = 2
    /\ OnDisk(file)[2].id = last.id
    /\ OnDisk(file)[2].estado = "avisado"
    /\ OnDisk(file)[2].firma = last.arg
    /\ OnDisk(file)[1].firma = Some(<<"s","A">>)

\* C10 as stated: once an order is entregado no step changes its firma.
C10_SignatureFrozen ==
    [][\A id \in OrderIds :
          (Has(file, id) /\ Ord(file, id).estado = "entregado") =>
              /\ Has(file', id)
              /\ Ord(file', id).firma = Ord(file, id).firma]_vars

\* the records of f and of g that carry the same identifier, as pairs
SameOrder(f, g) ==
    {<<OnDisk(f)[i], Normalize(OnDisk(g)[j])>> :
        <<i, j>> \in {<<i, j>> \in (1..Len(OnDisk(f))) \X (1..Len(OnDisk(g))) :
                        OnDisk(f)[i].id = OnDisk(g)[j].id}}

\* C11 as stated: once fecha_llegada, fecha_aviso or fecha_entrega of an
\* order is set, no step changes it.
C11_Original ==
    [][file' # file =>
          \A pr \in SameOrder(file, file') :
              \A k \in {"fecha_llegada", "fecha_aviso", "fecha_entrega"} :
                  Get(pr[1], k, None) # None => pr[2][k] = pr[1][k]]_vars

\* C11 amended: fecha_llegada is set once: once set no step changes it.
\* fecha_aviso, once set, changes only when "avisado" is accepted again on
\* that order, and fecha_entrega only when "entregado" is accepted again on
\* it; each time the field takes the time of that request.
C11_Amended ==
    [][file' # file =>
          \A pr \in SameOrder(file, file') :
              /\ Get(pr[1], "fecha_llegada", None) # None =>
                      pr[2].fecha_llegada = pr[1].fecha_llegada
              /\ (Get(pr[1], "fecha_aviso", None) # None
                  /\ pr[2].fecha_aviso # pr[1].fecha_aviso) =>
                      /\ Served("avisado", pr[1].id) /\ last'.status = 200
                      /\ pr[2].fecha_aviso = Some(Strftime(clock'))
              /\ (Get(pr[1], "fecha_entrega", None) # None
                  /\ pr[2].fecha_entrega # pr[1].fecha_entrega) =>
                      /\ Served("entregado", pr[1].id) /\ last'.status = 200
                      /\ pr[2].fecha_entrega = Some(Strftime(clock'))]_vars

\* C11 witness: an order that arrived and was notified in second 0 stands
\* delivered in second 1, its arrival date still that of second 0
C11_Witness ==
    \E i \in 1..Len(Orders) :
        /\ last.op = "entregado" /\ last.id = Orders[i].id /\ last.status = 200
        /\ Orders[i].fecha_llegada = Some(0)
        /\ Orders[i].fecha_aviso = Some(0)
        /\ Orders[i].fecha_entrega = Some(1)
        /\ Orders[i].firma = Some(<<"s","B">>)

\* the dates of an order in lifecycle order, None where not set
Dates(o) ==
    <<Some(o.fecha_solicitud), o.fecha_llegada, o.fecha_aviso, o.fecha_entrega>>

\* C12: with a clock that never runs backward, the dates that are set on a
\* stored order are in order: fecha_solicitud <= fecha_llegada <=
\* fecha_aviso <= fecha_entrega.
C12_DatesInOrder ==
    \A i \in 1..Len(Orders) :
        \A a, b \in 1..4 :
            (a < b /\ Dates(Orders[i])[a] # None /\ Dates(Orders[i])[b] # None) =>
                Dates(Orders[i])[a][1] <= Dates(Orders[i])[b][1]

\* C12 witness: a delivered order that was notified a second after its
\* arrival and delivered in that later second
C12_Witness ==
    \E i \in 1..Len(Orders) :
        /\ Orders[i].estado = "entregado"
        /\ Dates(Orders[i]) = <<Some(0), Some(0), Some(1), Some(1)>>
        /\ clock = MaxClock

\* the "accion" values update_order_status knows
KnownActions == {"llego", "avisado", "entregado"}

\* C13: a request answered with an error leaves the orders file exactly as
\* it was; a status or signature request (the latter with a blob) naming an
\* identifier that is not stored is answered OrderNotFound, and a status
\* request with an unknown action on a stored order InvalidAction.
C13_FailuresWriteNothing ==
    [][/\ last'.status = 400 => file' = file
       /\ ((last'.op \in Actions \/ (last'.op = "firma" /\ FirmaGiven(last'.arg)))
           /\ ~Has(file, last'.id)) =>
              last'.error = Some(OrderNotFound)
       /\ (last'.op \in Actions \ KnownActions /\ Has(file, last'.id)) =>
              last'.error = Some(InvalidAction)]_vars

\* C13 witness: an unknown action was refused on a stored, notified order
C13_Witness ==
    /\ last.error = Some(InvalidAction)
    /\ Len(OnDisk(file)) = 1
    /\ OnDisk(file)[1].id = last.id
    /\ OnDisk(file)[1].estado = "avisado"

\* C14: no step removes a stored order: every identifier stored before a
\* step is stored after it, the number of stored orders does not shrink,
\* and stored orders keep their relative order.
C14_NeverDeleted ==
    [][file' # file =>
          LET a == OnDisk(file)
              b == OnDisk(file')
          IN  /\ Len(b) >= Len(a)
              /\ \A i \in 1..Len(a) : \E j \in 1..Len(b) : b[j].id = a[i].id
              /\ \A i1, i2 \in 1..Len(a) : \A j1, j2 \in 1..Len(b) :
                    (i1 < i2 /\ b[j1].id = a[i1].id /\ b[j2].id = a[i2].id) =>
                        j1 < j2]_vars

\* C14 witness: a signature was stored on the older of two stored orders
C14_Witness ==
    /\ Len(OnDisk(file)) = 2
    /\ OnDisk(file)[1].id = 1 /\ OnDisk(file)[2].id = 0
    /\ last.op = "firma" /\ last.id = 0 /\ last.status = 200
    /\ OnDisk(file)[1].estado = "llegado"

\* the fields of an order that are fixed when it is created
Immutable == {"id", "fecha_solicitud", "sucursal", "cantidad",
              "observaciones", "producto"}

\* C15: no step changes id, fecha_solicitud, sucursal, cantidad,
\* observaciones or the producto snapshot of a stored order, and no two
\* stored orders carry the same id.
C15_CreationDataFixed ==
    [][file' # file =>
          /\ \A pr \in SameOrder(file, file') :
                \A k \in Immutable : pr[2][k] = pr[1][k]
          /\ \A i, j \in 1..Len(OnDisk(file')) :
                i # j => OnDisk(file')[i].id # OnDisk(file')[j].id]_vars

\* C15 witness: two orders with different products, branches and notes are
\* stored, the older one delivered
C15_Witness ==
    /\ Len(OnDisk(file)) = 2
    /\ OnDisk(file)[1].producto.codigo = <<"B","2">>
    /\ OnDisk(file)[1].sucursal = <<"P","D","E">>
    /\ OnDisk(file)[1].observaciones = <<"x">>
    /\ OnDisk(file)[1].cantidad = 2
    /\ OnDisk(file)[1].estado = "avisado"
    /\ OnDisk(file)[2].estado = "entregado"
    /\ OnDisk(file)[2].sucursal = <<"N","/","D">>

(* --------------------- the store, file by file ------------------------- *)

\* length of the longest orders.json list drawn at start-up
MaxStored == 2

\* what orders.json holds when it is not a JSON list of objects:
\*   "notjson"   text json.load rejects (empty, cut short, garbage)
\*   "encoding"  bytes that are not UTF-8
\*   "scalar"    valid JSON that cannot be iterated (null, a number, true)
\*   "items"     valid JSON whose iteration yields a non-object ([1], "ab",
\*               {"a": 1})
\*   "empty"     valid JSON whose iteration yields nothing ({} or "")
Damages == {"notjson", "encoding", "scalar", "items", "empty"}

Damaged(kind) == [exists |-> TRUE, orders |-> <<>>, damage |-> kind]

\* the exception load_orders lets through, None when it returns:
\* only json.JSONDecodeError is caught
LoadError(f) ==
    LET kind == Get(f, "damage", "none")
    IN  IF ~f.exists THEN None
        ELSE CASE kind = "encoding" -> Some("UnicodeDecodeError")
               [] kind = "scalar" -> Some("TypeError")
               [] kind = "items" -> Some("AttributeError")
               [] OTHER -> None

\* the records of s numbered as the store numbers them, newest first
Collection(s) == [i \in 1..Len(s) |-> [s[i] EXCEPT !.id = Len(s) - i]]

\* the contents orders.json may have at start-up
StoreFiles ==
    {[exists |-> FALSE, orders |-> <<>>]}
    \cup {Damaged(kind) : kind \in Damages}
    \cup {[exists |-> TRUE, orders |-> Collection(s)] :
            s \in UNION {[1..n -> StoredOrders] : n \in 0..MaxStored}}

\* GET /api/orders
api_orders ==
    /\ last' = [op |-> "orders", id |-> NoId, arg |-> None,
                status |-> IF LoadError(file) = None THEN 200 ELSE 500,
                error |-> LoadError(file),
                body |-> IF LoadError(file) = None THEN load_orders(file)
                         ELSE <<>>]
    /\ UNCHANGED <<file, clock, issued, callers>>

\* save_orders(load_orders())
Resave ==
    /\ file' = IF LoadError(file) = None THEN save_orders(load_orders(file))
               ELSE file
    /\ last' = [op |-> "resave", id |-> NoId, arg |-> None,
                status |-> IF LoadError(file) = None THEN 200 ELSE 500,
                error |-> LoadError(file),
                body |-> <<>>]
    /\ UNCHANGED <<clock, issued, callers>>

InitStore ==
    /\ file \in StoreFiles
    /\ clock = 0
    /\ issued = 0
    /\ last = [op |-> "start", id |-> NoId, arg |-> None, status |-> 200,
               error |-> None, body |-> <<>>]
    /\ callers = [p \in Callers |-> IdleCaller]

NextStore ==
    \/ api_orders
    \/ Resave

SpecStore == InitStore /\ [][NextStore]_vars

\* the five fields load_orders backfills
Backfilled == {"estado", "fecha_llegada", "fecha_aviso", "fecha_entrega", "firma"}

\* f holds a JSON list of order records each with all its fields
Valid(f) ==
    /\ f.exists
    /\ "damage" \notin DOMAIN f
    /\ \A i \in 1..Len(f.orders) : Backfilled \subseteq DOMAIN f.orders[i]

\* C16: saving what was just loaded leaves a valid stored collection (every
\* record with all its fields, None dates and firma included) exactly as it
\* was, records, fields and order; and whatever list the file held, loading
\* it afterwards gives what loading it before gave.
C16_RoundTrip ==
    [][last'.op = "resave" =>
          /\ Valid(file) => (last'.status = 200 /\ file' = file)
          /\ (file.exists /\ "damage" \notin DOMAIN file) =>
                load_orders(file') = load_orders(file)]_vars

\* C16 witness: a collection of a pending order without dates or signature
\* and a delivered one has been written back
C16_Witness ==
    /\ last.op = "resave" /\ last.status = 200
    /\ Valid(file)
    /\ Len(file.orders) = 2
    /\ file.orders[1].estado = "pendiente"
    /\ file.orders[1].fecha_llegada = None
    /\ file.orders[1].firma = None
    /\ file.orders[2].estado = "entregado"
    /\ file.orders[2].firma = Some(<<"s","A">>)

\* C17 as stated: GET /api/orders never fails on account of the file: it
\* answers the empty list when the file is missing and when its content is
\* not a list of order records, whatever the damage.
C17_LoadNeverFails ==
    last.op = "orders" =>
        /\ last.status = 200
        /\ (~file.exists \/ "damage" \in DOMAIN file) => last.body = <<>>

\* C18: every record load_orders returns has the five fields estado,
\* fecha_llegada, fecha_aviso, fecha_entrega and firma; a field the stored
\* record lacks is "pendiente" (estado) or None, a field it has keeps its
\* value, and the records come back all and in the stored order.
C18_Backfill ==
    (last.op = "orders" /\ last.status = 200) =>
        /\ Len(last.body) = Len(OnDisk(file))
        /\ \A i \in 1..Len(last.body) :
              LET raw == OnDisk(file)[i]
                  got == last.body[i]
              IN  /\ DOMAIN got = DOMAIN raw \cup Backfilled
                  /\ \A k \in DOMAIN raw : got[k] = raw[k]
                  /\ \A k \in Backfilled \ DOMAIN raw :
                        IF k = "estado" THEN got[k] = "pendiente"
                        ELSE got[k] = None

\* C18 witness: a notified record without dates and signature and a record
\* without estado were read; the first came back notified and unsigned
C18_Witness ==
    /\ last.op = "orders" /\ last.status = 200
    /\ Len(last.body) = 2
    /\ DOMAIN OnDisk(file)[1] \cap Backfilled = {"estado"}
    /\ DOMAIN OnDisk(file)[2] \cap Backfilled = {}
    /\ last.body[1].estado = "avisado"
    /\ last.body[1].firma = None
    /\ last.body[2].estado = "pendiente"

(* ------------------- requests served side by side ---------------------- *)

\* app.run serves each request on a thread of its own and no handler takes
\* a lock, so the reads and writes of orders.json by different requests
\* interleave. A request is three steps: load_orders reads the file; the
\* handler changes the list it loaded and save_orders opens the file for
\* writing, which empties it; json.dump finishes and the file is closed, at
\* which point the new content is on file. The clock stands still meanwhile.

\* orders.json while it is open for writing or after two writers' bytes
\* were mixed: text json.load rejects
Truncated == Damaged("notjson")

\* the requests made side by side: one product, the order on file, one image
ConcRequests ==
    {Request("create", NoId, <<"A","1">>)}
    \cup {Request(action, 0, None) : action \in KnownActions}
    \cup {Request("firma", 0, Some(<<"s","A">>))}

\* the handler of req run on the content f of orders.json
Handle(req, f, t, uuid) ==
    CASE req.op = "create" -> create_order(f, [codigo |-> req.arg], t, uuid)
      [] req.op = "firma" -> save_signature(f, req.id, req.arg)
      [] OTHER -> update_order_status(f, req.id, req.op, t)

\* variant: the handler reads the file again right before it saves
Basis_Reload(p) == file

\* the content the handler of caller p works on: what its load_orders read
Basis(p) == callers[p].seen

Answer(p, status, error) ==
    last' = [op |-> callers[p].req.op, id |-> callers[p].req.id,
             arg |-> callers[p].req.arg, status |-> status, error |-> error]

\* GET /api/orders by caller p, one read of the file
Read(p) ==
    /\ callers[p].pc = "idle"
    /\ callers' = [callers EXCEPT ![p] =
            [IdleCaller EXCEPT !.req = Request("orders", NoId, None),
                               !.seen = file, !.status = 200,
                               !.body = load_orders(file)]]
    /\ last' = [op |-> "orders", id |-> NoId, arg |-> None, status |-> 200,
                error |-> None]
    /\ UNCHANGED <<file, clock, issued>>

\* load_orders() of a changing request of caller p
Load(p) ==
    /\ callers[p].pc = "idle"
    /\ \E req \in ConcRequests :
          callers' = [callers EXCEPT ![p] =
              [IdleCaller EXCEPT !.pc = "loaded", !.req = req, !.seen = file]]
    /\ UNCHANGED <<file, clock, issued, last>>

\* the handler body of caller p up to ORDERS_FILE.open("w"), or its raise
Save(p) ==
    /\ callers[p].pc = "loaded"
    /\ LET r == Handle(callers[p].req, Basis(p), clock, issued + 1)
           writing == {q \in Callers \ {p} : callers[q].pc = "opened"}
       IN  IF r.error # None
           THEN /\ callers' = [callers EXCEPT ![p].pc = "idle",
                                              ![p].status = 400,
                                              ![p].error = r.error]
                /\ Answer(p, 400, r.error)
                /\ UNCHANGED <<file, clock, issued>>
           ELSE /\ callers[p].req.op = "create" => issued < MaxOrders
                /\ file' = Truncated
                /\ issued' = IF callers[p].req.op = "create" THEN issued + 1
                             ELSE issued
                /\ callers' = [q \in Callers |->
                      IF q = p
                      THEN [callers[p] EXCEPT !.pc = "opened",
                                              !.pending = r.file,
                                              !.overlapped = writing # {}]
                      ELSE IF q \in writing
                      THEN [callers[q] EXCEPT !.overlapped = TRUE]
                      ELSE callers[q]]
                /\ UNCHANGED <<clock, last>>

\* json.dump and close of caller p: its list is on file, unless another
\* writer had the file open in the meantime, when the bytes of the two may
\* also be left mixed
Close(p) ==
    /\ callers[p].pc = "opened"
    /\ \/ file' = callers[p].pending
       \/ callers[p].overlapped /\ file' = Truncated
    /\ callers' = [callers EXCEPT ![p].pc = "idle", ![p].status = 200]
    /\ Answer(p, 200, None)
    /\ UNCHANGED <<clock, issued>>

\* orders.json holds one order with all its fields
InitConc ==
    /\ \E o \in {o \in StoredOrders : Backfilled \subseteq DOMAIN o} :
          file = [exists |-> TRUE, orders |-> <<o>>]
    /\ clock = 0
    /\ issued = 0
    /\ last = [op |-> "start", id |-> NoId, arg |-> None, status |-> 200,
               error |-> None]
    /\ callers = [p \in Callers |-> IdleCaller]

NextConc ==
    \/ \E p \in Callers : Read(p)
    \/ \E p \in Callers : Load(p)
    \/ \E p \in Callers : Save(p)
    \/ \E p \in Callers : Close(p)

SpecConc == InitConc /\ [][NextConc]_vars

\* C19 as stated: a load_orders that runs while another request saves reads
\* a complete collection, the one before the save or the one after it: what
\* a caller has read is never an emptied or partly written file, and holds
\* the order the store started with.
C19_ReadersSeeComplete ==
    \A p \in Callers :
        callers[p].req.op # "start" =>
            /\ "damage" \notin DOMAIN callers[p].seen
            /\ FindTarget(load_orders(callers[p].seen), 0) # 0

\* C20: requests take no lock and the last save wins with the whole list:
\* what a request saves is its handler's result on the list the request
\* itself loaded, whatever was saved since, and when it closes the file that
\* list replaces the content of the file (or, after overlapping writes, is
\* left unreadable); the request then answers 200.
C20_LastWriteWins ==
    [][\A p \in Callers :
          /\ (callers[p].pc = "loaded" /\ callers'[p].pc = "opened") =>
                callers'[p].pending =
                    Handle(callers[p].req, callers[p].seen, clock, issued + 1).file
          /\ (callers[p].pc = "opened" /\ callers'[p].pc = "idle") =>
                /\ callers'[p].status = 200
                /\ \/ file' = callers[p].pending
                   \/ callers[p].overlapped /\ file' = Truncated]_vars

\* C20 witness: a signature and a "llego" on the same pending order, loaded
\* from the same content and saved one after the other, both answered 200,
\* and the order on file is signed and still pending: the arrival is lost
C20_Witness ==
    /\ \E p, q \in Callers :
          /\ callers[p].pc = "idle" /\ callers[p].status = 200
          /\ callers[p].req = Request("firma", 0, Some(<<"s","A">>))
          /\ callers[q].pc = "idle" /\ callers[q].status = 200
          /\ callers[q].req = Request("llego", 0, None)
          /\ callers[p].seen = callers[q].seen
          /\ ~callers[p].overlapped /\ ~callers[q].overlapped
    /\ Valid(file)
    /\ Len(file.orders) = 1
    /\ file.orders[1].estado = "pendiente"
    /\ file.orders[1].fecha_llegada = None
    /\ file.orders[1].firma = Some(<<"s","A">>)

(* --------------------------- catalog search ---------------------------- *)

\* length of the longest query searched for
MaxQuery == 2
\* largest limit asked for
MaxLimit == 3

\* the characters queries are made of
QueryChars == {" ", "a", "1", "7", "Z"}

Queries == UNION {[1..n -> QueryChars] : n \in 0..MaxQuery}

\* " ".join(parts)
RECURSIVE Join(_)
Join(parts) ==
    IF Len(parts) = 0 THEN <<>>
    ELSE IF Len(parts) = 1 THEN parts[1]
    ELSE parts[1] \o <<" ">> \o Join(Tail(parts))

\* q in text
Contains(q, text) ==
    \E k \in 0..(Len(text) - Len(q)) :
        \A i \in 1..Len(q) : text[k + i] = q[i]

\* the upper-cased text of a catalog record the query is looked for in
SearchText(item) ==
    Upper(Join(<<Get(item, "codigo", <<>>), Get(item, "codigo_barra", <<>>),
                 Get(item, "nombre", <<>>), Get(item, "marca", <<>>)>>))

\* the "for item in PADRON" loop from record i on, with its break
RECURSIVE Scan(_, _, _, _)
Scan(i, results, q, limit) ==
    IF i > Len(PADRON) THEN results
    ELSE LET item == PADRON[i]
             found == IF Contains(q, SearchText(item))
                      THEN Append(results,
                             item @@ [via |-> arrival_info(Get(item, "marca", <<>>))])
                      ELSE results
         IN  IF Len(found) >= limit THEN found
             ELSE Scan(i + 1, found, q, limit)

filter_products(query, limit) ==
    LET q == Upper(Strip(query))
    IN  IF q = <<>> THEN <<>> ELSE Scan(1, <<>>, q, limit)

\* a call of filter_products(query, limit)
Search ==
    /\ \E query \in Queries, limit \in 0..MaxLimit :
          last' = [op |-> "search", id |-> NoId, arg |-> query,
                   status |-> 200, error |-> None, limit |-> limit,
                   body |-> filter_products(query, limit)]
    /\ UNCHANGED <<file, clock, issued, callers>>

InitSearch ==
    /\ file = [exists |-> FALSE, orders |-> <<>>]
    /\ clock = 0
    /\ issued = 0
    /\ last = [op |-> "start", id |-> NoId, arg |-> <<>>, status |-> 200,
               error |-> None, limit |-> 0, body |-> <<>>]
    /\ callers = [p \in Callers |-> IdleCaller]

NextSearch == Search

SpecSearch == InitSearch /\ [][NextSearch]_vars

\* C21 as stated: a search with an empty or whitespace-only query returns
\* the empty list, a search whose query is in no record's text returns the
\* empty list, and a search never returns more records than the limit it
\* was given, for every limit from 0 up.
C21_SearchBounded ==
    last.op = "search" =>
        LET q == Upper(Strip(last.arg))
        IN  /\ q = <<>> => last.body = <<>>
            /\ (\A i \in 1..Len(PADRON) : ~Contains(q, SearchText(PADRON[i])))
                  => last.body = <<>>
            /\ Len(last.body) <= last.limit

(* ---------------- the lifecycle under interleaved requests ------------- *)

\* caller p's most recent request changed order 0, answered 200 and wrote
\* the file without another writer in the way: the list it saved was the
\* content of orders.json when it closed the file
Stored(p) ==
    /\ callers[p].pc = "idle"
    /\ callers[p].status = 200
    /\ callers[p].req.id = 0
    /\ ~callers[p].overlapped

\* the estado of order 0 in the list orders
EstadoIn(orders) == Get(orders[FindTarget(orders, 0)], "estado", "pendiente")

\* C22 as stated: also when the loads and saves of different requests on
\* the same order interleave, the estado of the order on file never goes
\* back: once a request has put the order on file with some estado, the
\* order on file is never found with an earlier one.
C22_Original ==
    \A p \in Callers :
        (Stored(p) /\ Valid(file) /\ Has(file, 0)) =>
            Rank(EstadoIn(file.orders)) >= Rank(EstadoIn(callers[p].pending.orders))

\* C22 amended: every request on an order saves it with the estado of the
\* list the request itself loaded or with the next one (the same one for a
\* signature), never an earlier one; the estado on file can go back only
\* through a save computed from a list loaded before another request's save.
C22_Amended ==
    [][\A p \in Callers :
          (callers[p].pc = "loaded" /\ callers'[p].pc = "opened"
           /\ callers[p].req.id = 0) =>
              LET before == load_orders(callers[p].seen)
                  after == callers'[p].pending.orders
              IN  /\ FindTarget(before, 0) # 0
                  /\ FindTarget(after, 0) # 0
                  /\ Rank(EstadoIn(after)) - Rank(EstadoIn(before)) \in
                        IF callers[p].req.op = "firma" THEN {0} ELSE {0, 1}]_vars

\* C22 witness: an "avisado" and a signature on the same arrived order both
\* answered 200 after writes that did not overlap; the "avisado" saved the
\* order as notified, and the order on file is signed and arrived
C22_Witness ==
    /\ \E p, q \in Callers :
          /\ Stored(p) /\ callers[p].req.op = "avisado"
          /\ EstadoIn(callers[p].pending.orders) = "avisado"
          /\ Stored(q) /\ callers[q].req.op = "firma"
          /\ EstadoIn(load_orders(callers[q].seen)) = "llegado"
    /\ Valid(file)
    /\ Len(file.orders) = 1
    /\ file.orders[1].estado = "llegado"
    /\ file.orders[1].firma = Some(<<"s","A">>)

(* ------------------------- estado and its dates ------------------------ *)

\* C23: starting from an empty store and serving one request at a time,
\* every order on file has fecha_llegada set exactly when its estado is
\* llegado, avisado or entregado, fecha_aviso set exactly when its estado is
\* avisado or entregado, and fecha_entrega set exactly when it is entregado.
C23_DatesMatchEstado ==
    \A i \in 1..Len(Orders) :
        LET o == Orders[i]
        IN  /\ (o.fecha_llegada # None) <=> (Rank(o.estado) >= 2)
            /\ (o.fecha_aviso # None) <=> (Rank(o.estado) >= 3)
            /\ (o.fecha_entrega # None) <=> (Rank(o.estado) >= 4)

\* C23 witness: a signature was just taken on a notified order, which has
\* its arrival and notice dates and no delivery date
C23_Witness ==
    /\ last.op = "firma" /\ last.status = 200
    /\ \E i \in 1..Len(Orders) :
          /\ Orders[i].id = last.id
          /\ Orders[i].estado = "avisado"
          /\ Orders[i].fecha_llegada # None
          /\ Orders[i].fecha_aviso # None
          /\ Orders[i].fecha_entrega = None

====
